---- MODULE Spec2Model ----
(***************************************************************************)
(* Model of the synthetic e-commerce data generator                        *)
(* (src/data_generation/generate_data.py) and of the revenue aggregation   *)
(* (src/analytics/revenue_analysis.py).                                    *)
(*                                                                         *)
(* Conventions                                                             *)
(*  - A datetime is an integer number of seconds; timedelta arithmetic is  *)
(*    integer arithmetic on seconds.                                       *)
(*  - Money is an integer number of cents, a rating an integer number of   *)
(*    tenths: round(x, 2) and round(x, 1) of the source keep exactly these.*)
(*  - A call of the random module or of Faker is a draw: the action that   *)
(*    models the calling method takes the drawn values as inputs, chosen   *)
(*    from small sets of outcomes the call can produce.                    *)
(*  - A raised exception is a value [exception |-> name]; a method that    *)
(*    raises returns nothing else.                                         *)
(***************************************************************************)
EXTENDS Integers, Sequences, FiniteSets, Bags, TLC

VARIABLES
    generator,          \* an EcommerceDataGenerator object (Spec)
    frame,              \* the last method call on generator: arguments, locals, result
    run,                \* run id -> state of one execution of main() (SpecMain)
    transactions_csv,   \* the table calculate_revenue loads (SpecRevenue)
    revenue_metrics,    \* the dictionary calculate_revenue returns
    revenue_report      \* what the script's main block printed, or the exception it raised

vars == <<generator, frame, run, transactions_csv, revenue_metrics, revenue_report>>

None == [none |-> TRUE]

(***************************************************************************)
(* Bounds of the model.                                                    *)
(***************************************************************************)
MaxUsers == 7           \* num_users ranges over -NegUsers .. MaxUsers
NegUsers == 4
MaxProducts == 2        \* num_products ranges over -1 .. MaxProducts
MaxLogs == 2            \* num_logs ranges over -1 .. MaxLogs
MaxTransactions == 2    \* num_transactions ranges over -1 .. MaxTransactions

(***************************************************************************)
(* Sequence helpers.                                                       *)
(***************************************************************************)
Range(s) == {s[i] : i \in DOMAIN s}

Max(a, b) == IF a >= b THEN a ELSE b

Reverse(s) == [i \in 1..Len(s) |-> s[Len(s) + 1 - i]]

RECURSIVE FlattenSeq(_)
FlattenSeq(ss) == IF ss = <<>> THEN <<>> ELSE Head(ss) \o FlattenSeq(Tail(ss))

RECURSIVE SumSeq(_)
SumSeq(s) == IF s = <<>> THEN 0 ELSE Head(s) + SumSeq(Tail(s))

(***************************************************************************)
(* f"{i:0{width}d}" for i >= 0: the decimal digits of i, left-padded with  *)
(* zeros to at least width characters.                                     *)
(***************************************************************************)
Digit(d) ==
    CASE d = 0 -> "0" [] d = 1 -> "1" [] d = 2 -> "2" [] d = 3 -> "3" [] d = 4 -> "4"
      [] d = 5 -> "5" [] d = 6 -> "6" [] d = 7 -> "7" [] d = 8 -> "8" [] d = 9 -> "9"

RECURSIVE ZeroPad(_, _)
ZeroPad(i, width) ==
    IF i < 10
    THEN IF width > 1 THEN "0" \o ZeroPad(i, width - 1) ELSE Digit(i)
    ELSE ZeroPad(i \div 10, width - 1) \o Digit(i % 10)

(***************************************************************************)
(* EcommerceDataGenerator.__init__                                         *)
(***************************************************************************)
categories ==
    <<"Electronics", "Clothing", "Home & Garden", "Sports", "Books", "Toys", "Beauty", "Food">>

brands(category) ==
    CASE category = "Electronics" -> <<"Samsung", "Sony", "Apple", "Philips">>
      [] category = "Clothing" -> <<"Nike", "Adidas", "H&M", "Louis Vuitton">>
      [] category = "Home & Garden" -> <<"Ikea", "Bosch", "HomeEase", "GardenPro">>
      [] category = "Sports" -> <<"Nike", "Adidas", "Decathlon", "Under Armour">>
      [] category = "Books" -> <<"Gallimard", "Penguin", "Hachette", "BookWorld">>
      [] category = "Toys" -> <<"Lego", "Playmobil", "Mattel", "ToyBox">>
      [] category = "Beauty" -> <<"L'Oréal", "Sephora", "Yves Rocher", "BeautyPlus">>
      [] category = "Food" -> <<"Nestlé", "Danone", "Carrefour", "Foodies">>

pages ==
    <<"/", "/products", "/cart", "/checkout", "/account", "/orders", "/returns",
      "/search", "/category/electronics", "/category/clothing",
      "/category/home", "/category/sports", "/category/books", "/category/toys",
      "/category/beauty", "/category/food", "/offers", "/faq", "/about", "/contact">>

actions == <<"view", "click", "add_to_cart", "remove_from_cart", "search">>

devices == <<"Desktop", "Mobile", "Tablet">>

\* [f(i) for i in range(n)]: range(n) is empty for n <= 0.
users_pool(num_users) == [i \in 1..Max(num_users, 0) |-> "user_" \o ZeroPad(i - 1, 6)]

\* Mutant of products_pool: the sequence numbers start at 1.
products_pool_from_one(num_products) ==
    [i \in 1..Max(num_products, 0) |-> "product_" \o ZeroPad(i, 4)]

products_pool(num_products) ==
    [i \in 1..Max(num_products, 0) |-> "product_" \o ZeroPad(i - 1, 4)]

EcommerceDataGenerator(num_users, num_products) ==
    [num_users |-> num_users,
     num_products |-> num_products,
     users |-> users_pool(num_users),
     products |-> products_pool(num_products)]

(***************************************************************************)
(* pandas: DataFrame(list of dicts), sort_values(by).reset_index, to_csv.   *)
(* A frame built from an empty list has no columns at all.                 *)
(***************************************************************************)
DataFrame(rows, columns) ==
    [columns |-> IF rows = <<>> THEN <<>> ELSE columns, rows |-> rows]

\* Insertion of row r into the sorted sequence s, after the rows whose key is
\* not greater: equal keys keep their order of arrival.
RECURSIVE InsertSorted(_, _, _)
InsertSorted(r, s, by) ==
    IF s = <<>> THEN <<r>>
    ELSE IF s[1][by] <= r[by] THEN <<s[1]>> \o InsertSorted(r, Tail(s), by)
    ELSE <<r>> \o s

RECURSIVE SortRows(_, _)
SortRows(rows, by) ==
    IF rows = <<>> THEN <<>>
    ELSE InsertSorted(rows[Len(rows)], SortRows(SubSeq(rows, 1, Len(rows) - 1), by), by)

\* Mutant of sort_values: the sorted frame is dropped and df returned as it was.
sort_values_unsorted(df, by) ==
    IF by \notin Range(df.columns)
    THEN [exception |-> "KeyError"]
    ELSE df

\* df.sort_values(by).reset_index(drop=True): KeyError when df has no column by.
sort_values(df, by) ==
    IF by \notin Range(df.columns)
    THEN [exception |-> "KeyError"]
    ELSE [columns |-> df.columns, rows |-> SortRows(df.rows, by)]

\* df.to_csv(path, index=False): a header line of the column names, then one
\* line per row holding the row's cells in column order.
to_csv(df) ==
    [header |-> df.columns,
     lines |-> [i \in 1..Len(df.rows) |->
                   [c \in 1..Len(df.columns) |-> df.rows[i][df.columns[c]]]]]

IsException(v) == "exception" \in DOMAIN v

(***************************************************************************)
(* Draws.  random.choice(seq) is the index it picks; the model lets it pick *)
(* the first or the last element.  The randint draws of one timestamp      *)
(* (days, hours, minutes, seconds) are all lowest, or the highest day with *)
(* the lowest or the highest time of day.  Faker's uuid4() is a fresh      *)
(* token at each call: the k-th call within a method yields Uuid4(k).      *)
(***************************************************************************)
ChoiceDraws(seq) == {1, Len(seq)} \cap DOMAIN seq

Uuid4Head(k) == ZeroPad(k, 8)

Uuid4(k) == Uuid4Head(k) \o "-0000-4000-8000-000000000000"

ProductDraws ==
    [category : ChoiceDraws(categories),        \* line 71
     product_name : {"Adaptive dedicated hub"},  \* line 74, fake.catch_phrase()
     category_field : ChoiceDraws(categories),  \* line 75
     price : {999},                              \* line 76, cents
     brand : ChoiceDraws(brands("Food")),        \* line 77, every brand list has 4 entries
     stock_quantity : {1000},                    \* line 78
     rating : {50}]                              \* line 79, tenths

\* random.randint(0, days), randint(0, 23), randint(0, 59), randint(0, 59)
TimestampDraws(days) ==
    {[days |-> 0, hours |-> 0, minutes |-> 0, seconds |-> 0],
     [days |-> days, hours |-> 0, minutes |-> 0, seconds |-> 0],
     [days |-> days, hours |-> 23, minutes |-> 59, seconds |-> 59]}

LogDraws(self, days) ==
    [user : ChoiceDraws(self.users),            \* line 93
     time : TimestampDraws(days),                \* lines 95-98
     page_url : {Len(pages)},                    \* line 107
     action : {1},                               \* line 109
     device_type : {2},                          \* line 113
     duration_seconds : {600}]                   \* line 117

LineDraws(self) ==
    [product : {Len(self.products)} \cap DOMAIN self.products,  \* line 150
     quantity : {3},                             \* line 151
     price : {99999},                            \* line 152, cents
     payment_method : {"paypal"},                \* line 162
     status : {"completed"}]                     \* line 163

BasketSizeDraws == {1, 2, 5}                     \* line 147, out of [1, 2, 3, 4, 5]

BasketDraws(self, purchasing_users, days) ==
    {d \in [user : ChoiceDraws(purchasing_users),   \* line 139
            time : TimestampDraws(days),             \* lines 141-143, seconds unused
            num_items : BasketSizeDraws,
            lines : UNION {[1..n -> LineDraws(self)] : n \in BasketSizeDraws}] :
        Len(d.lines) = d.num_items}

SecondsPerDay == 86400
SecondsPerHour == 3600
SecondsPerMinute == 60

\* timedelta(days, hours, minutes, seconds) in seconds
timedelta(days, hours, minutes, seconds) ==
    days * SecondsPerDay + hours * SecondsPerHour + minutes * SecondsPerMinute + seconds

(***************************************************************************)
(* EcommerceDataGenerator.generate_products                                *)
(***************************************************************************)
product_columns ==
    <<"product_id", "product_name", "category", "price", "brand", "stock_quantity", "rating">>

product_row(product_id, d) ==
    LET category == categories[d.category] IN
    [product_id |-> product_id,
     product_name |-> d.product_name,
     category |-> categories[d.category_field],
     price |-> d.price,
     brand |-> brands(category)[d.brand],
     stock_quantity |-> d.stock_quantity,
     rating |-> d.rating]

\* draws: one ProductDraws record per product of the pool
generate_products(self, draws) ==
    LET products_data == [i \in 1..Len(self.products) |-> product_row(self.products[i], draws[i])]
    IN  [method |-> "generate_products",
         draws |-> draws,
         ret |-> DataFrame(products_data, product_columns)]

(***************************************************************************)
(* EcommerceDataGenerator.generate_user_logs                               *)
(***************************************************************************)
log_columns ==
    <<"user_id", "timestamp", "page_url", "session_id", "action", "device_type",
      "duration_seconds">>

log_row(self, start_date, k, d) ==
    [user_id |-> self.users[d.user],
     timestamp |-> start_date + timedelta(d.time.days, d.time.hours, d.time.minutes, d.time.seconds),
     page_url |-> pages[d.page_url],
     session_id |-> "session_" \o Uuid4Head(k),
     action |-> actions[d.action],
     device_type |-> devices[d.device_type],
     duration_seconds |-> d.duration_seconds]

\* The loop bodies that run to their end: random.choice raises IndexError on
\* an empty pool in the first one.
LogIterations(self, num_logs) == IF self.users = <<>> THEN 0 ELSE Max(num_logs, 0)

\* now: the value datetime.now() returns; draws: one LogDraws record per iteration
generate_user_logs(self, num_logs, days, now, draws) ==
    LET start_date == now - timedelta(days, 0, 0, 0)
        logs_data == [k \in 1..LogIterations(self, num_logs) |->
                         log_row(self, start_date, k, draws[k])]
        df == DataFrame(logs_data, log_columns)
    IN  [method |-> "generate_user_logs",
         num_logs |-> num_logs, days |-> days, now |-> now, draws |-> draws,
         start_date |-> start_date,
         logs_data |-> logs_data,
         ret |-> IF num_logs >= 1 /\ self.users = <<>>
                 THEN [exception |-> "IndexError"]
                 ELSE sort_values(df, "timestamp")]

(***************************************************************************)
(* EcommerceDataGenerator.generate_transactions                            *)
(***************************************************************************)
transaction_columns ==
    <<"transaction_id", "user_id", "product_id", "quantity", "unit_price", "amount",
      "timestamp", "payment_method", "status">>

\* round(0.3 * n) for n >= 0: the nearest integer to 3n/10, a tie going to the even one.
Round3Tenths(n) ==
    LET q == (3 * n) \div 10
        r == (3 * n) % 10
    IN  IF r < 5 THEN q
        ELSE IF r > 5 THEN q + 1
        ELSE IF q % 2 = 0 THEN q ELSE q + 1

\* Mutant of PurchaserCount: the product rounded to the nearest integer.
PurchaserCountRounded(num_users) == Round3Tenths(num_users)

\* int(self.num_users * 0.3): the float product truncated toward zero.  The
\* double nearest to n * 0.3 truncates to the same integer as 3n/10 for every
\* |n| < 100000.
PurchaserCount(num_users) ==
    IF num_users >= 0 THEN (3 * num_users) \div 10 ELSE -((3 * (-num_users)) \div 10)

\* The results random.sample(population, k) can have: k elements of the
\* population at distinct positions, in any order.  The model lets it return
\* a run of k consecutive elements, forwards or backwards.
\* random.sample raises ValueError when k is negative or exceeds the population.
sample_raises(population, k) == k < 0 \/ k > Len(population)

random_sample(population, k) ==
    IF sample_raises(population, k)
    THEN {}
    ELSE UNION {{SubSeq(population, s, s + k - 1), Reverse(SubSeq(population, s, s + k - 1))} :
                  s \in {1, Len(population) - k + 1}}

\* line 136: random.sample(self.users, int(self.num_users * 0.3))
SampleRaises(self) == sample_raises(self.users, PurchaserCount(self.num_users))

SampleResults(self) ==
    IF SampleRaises(self) THEN {<<>>}
    ELSE random_sample(self.users, PurchaserCount(self.num_users))

transaction_line(self, user_id, timestamp, l) ==
    [transaction_id |-> "",
     user_id |-> user_id,
     product_id |-> self.products[l.product],
     quantity |-> l.quantity,
     unit_price |-> l.price,
     amount |-> l.price * l.quantity,
     timestamp |-> timestamp,
     payment_method |-> l.payment_method,
     status |-> l.status]

\* The lines one iteration of the outer loop appends.
basket_lines(self, purchasing_users, start_date, d) ==
    LET user_id == purchasing_users[d.user]
        timestamp == start_date + timedelta(d.time.days, d.time.hours, d.time.minutes, 0)
    IN  [i \in 1..d.num_items |-> transaction_line(self, user_id, timestamp, d.lines[i])]

\* The outer iterations that run to their end: random.choice raises IndexError
\* in the first one on an empty purchaser list or an empty product pool.
BasketIterations(self, purchasing_users, num_transactions) ==
    IF purchasing_users = <<>> \/ self.products = <<>> THEN 0 ELSE Max(num_transactions, 0)

\* now: the value datetime.now() returns; purchasing_users: the result of
\* random.sample (<<>> when it raises); draws: one BasketDraws record per outer
\* iteration
generate_transactions(self, num_transactions, days, now, purchasing_users, draws) ==
    LET start_date == now - timedelta(days, 0, 0, 0)
        raised == SampleRaises(self)
        n == IF raised THEN 0
             ELSE BasketIterations(self, purchasing_users, num_transactions)
        lines == FlattenSeq([b \in 1..n |->
                     basket_lines(self, purchasing_users, start_date, draws[b])])
        transactions_data ==
            [k \in 1..Len(lines) |-> [lines[k] EXCEPT !.transaction_id = Uuid4(k)]]
        df == DataFrame(transactions_data, transaction_columns)
    IN  [method |-> "generate_transactions",
         num_transactions |-> num_transactions, days |-> days, now |-> now, draws |-> draws,
         start_date |-> start_date,
         purchasing_users |-> purchasing_users,
         transactions_data |-> transactions_data,
         ret |-> IF raised THEN [exception |-> "ValueError"]
                 ELSE IF num_transactions >= 1 /\ n = 0 THEN [exception |-> "IndexError"]
                 ELSE sort_values(df, "timestamp")]

(***************************************************************************)
(* Spec: the methods of one generator object, called one at a time with    *)
(* any arguments.  frame holds the call in progress until it returns.      *)
(***************************************************************************)
DefaultDays == 30

\* The days argument of a call: the shortest window and the default one.
DaysValues == {0, DefaultDays}

Clocks == {1700000000}

Init ==
    /\ generator \in {EcommerceDataGenerator(u, p) :
                        u \in (-NegUsers)..MaxUsers, p \in (-1)..MaxProducts}
    /\ frame = None
    /\ run = None
    /\ transactions_csv = None
    /\ revenue_metrics = None
    /\ revenue_report = None

CallGenerateProducts ==
    /\ frame = None
    /\ \E draws \in [1..Len(generator.products) -> ProductDraws] :
          frame' = generate_products(generator, draws)
    /\ UNCHANGED <<generator, run, transactions_csv, revenue_metrics, revenue_report>>

CallGenerateUserLogs ==
    /\ frame = None
    /\ \E num_logs \in (-1)..MaxLogs, days \in DaysValues, now \in Clocks :
          \E draws \in [1..LogIterations(generator, num_logs) -> LogDraws(generator, days)] :
              frame' = generate_user_logs(generator, num_logs, days, now, draws)
    /\ UNCHANGED <<generator, run, transactions_csv, revenue_metrics, revenue_report>>

CallGenerateTransactions ==
    /\ frame = None
    /\ \E num_transactions \in (-1)..MaxTransactions, days \in DaysValues, now \in Clocks :
          \E purchasing_users \in SampleResults(generator) :
              \E draws \in
                      IF SampleRaises(generator) THEN {<<>>}
                      ELSE [1..BasketIterations(generator, purchasing_users, num_transactions)
                              -> BasketDraws(generator, purchasing_users, days)] :
                  frame' = generate_transactions(generator, num_transactions, days, now,
                                                 purchasing_users, draws)
    /\ UNCHANGED <<generator, run, transactions_csv, revenue_metrics, revenue_report>>

\* The caller drops the returned table (or the exception is handled): the
\* methods leave the generator object as it was, ready for the next call.
Return ==
    /\ frame # None
    /\ frame' = None
    /\ UNCHANGED <<generator, run, transactions_csv, revenue_metrics, revenue_report>>

Next ==
    \/ Return
    \/ CallGenerateProducts
    \/ CallGenerateUserLogs
    \/ CallGenerateTransactions

Spec == Init /\ [][Next]_vars

(***************************************************************************)
(* SpecMain: executions of main().  run maps a run id to the state of one  *)
(* execution: two independent executions of the script with the same       *)
(* parameters.  Both seed the generators with 42 (lines 16-17), so the     *)
(* n-th draw of one run is the n-th draw of the other: each action takes   *)
(* the draws once and steps every run with them.  Each run reads its own   *)
(* clock.  An exception is not caught anywhere: it ends the run           *)
(* (pc = "raised").                                                        *)
(*                                                                         *)
(* To keep the executions small the draws of a run are the ones that pick  *)
(* the first element, the highest day and a basket of one line.            *)
(***************************************************************************)
RunIds == {1, 2}

MainMaxUsers == 4       \* --users ranges over -NegUsers .. MainMaxUsers
MainMaxRows == 1        \* --products, --logs, --transactions range over -1 .. MainMaxRows
ElapsedSeconds == 1     \* the time a generator call takes

MainClocks == {1700000000, 1700003600}

MainArgs ==
    [users : (-NegUsers)..MainMaxUsers,
     products : (-1)..MainMaxRows,
     logs : (-1)..MainMaxRows,
     transactions : (-1)..MainMaxRows]

MainProductDraws == {d \in ProductDraws : d.category = 1 /\ d.brand = 1}

MainLogDraws(self, days) == {d \in LogDraws(self, days) : d.user = 1 /\ d.time.days = days}

MainBasketDraws(self, purchasing_users, days) ==
    {d \in BasketDraws(self, purchasing_users, days) :
        d.user = 1 /\ d.time.days = days /\ d.num_items = 1}

\* The state of a run when main() is entered at clock value now.
main_entered(now) ==
    [pc |-> "parse_args",
     clock |-> now,
     args |-> None,
     generator |-> None,
     products_df |-> None,
     logs_df |-> None,
     transactions_df |-> None,
     files |-> <<>>,
     calls |-> <<>>,
     logs_df_main |-> None,
     exception |-> None]

\* A generator method was called from the run in state st and ended with ret:
\* the result is bound to variable, or the exception ends the run.
after_call(st, method, variable, ret, next_pc) ==
    IF IsException(ret)
    THEN [st EXCEPT !.pc = "raised",
                    !.exception = ret.exception,
                    !.calls = Append(@, method),
                    !.clock = @ + ElapsedSeconds]
    ELSE [st EXCEPT !.pc = next_pc,
                    ![variable] = ret,
                    !.calls = Append(@, method),
                    !.clock = @ + ElapsedSeconds]

\* lines 244-247: args = parser.parse_args(); generator = EcommerceDataGenerator(...)
main_parse_args(st, args) ==
    [st EXCEPT !.pc = "save_data.generate_products",
               !.args = args,
               !.generator = EcommerceDataGenerator(args.users, args.products)]

\* line 184: products_df = self.generate_products(), after line 183 made sure
\* the output directory exists
save_data_generate_products(st, draws) ==
    after_call(st, "generate_products", "products_df",
               generate_products(st.generator, draws).ret,
               "save_data.generate_user_logs")

\* line 185: logs_df = self.generate_user_logs(num_logs)
save_data_generate_user_logs(st, draws) ==
    after_call(st, "generate_user_logs", "logs_df",
               generate_user_logs(st.generator, st.args.logs, DefaultDays, st.clock, draws).ret,
               "save_data.generate_transactions")

\* line 186: transactions_df = self.generate_transactions(num_transactions)
save_data_generate_transactions(st, purchasing_users, draws) ==
    after_call(st, "generate_transactions", "transactions_df",
               generate_transactions(st.generator, st.args.transactions, DefaultDays,
                                     st.clock, purchasing_users, draws).ret,
               "save_data.products_to_csv")

\* lines 190-192: df.to_csv(f"{output_dir}/<name>", index=False)
save_data_to_csv(st, name, df, next_pc) ==
    [st EXCEPT !.pc = next_pc,
               !.files = Append(@, [name |-> name, content |-> to_csv(df)])]

\* line 255: logs_df = generator.generate_user_logs(num_logs=args.logs), after
\* line 252 rebound generator.generate_transactions to a lambda nothing calls.
main_generate_user_logs(st, draws) ==
    after_call(st, "generate_user_logs", "logs_df_main",
               generate_user_logs(st.generator, st.args.logs, DefaultDays, st.clock, draws).ret,
               "done")

AllAt(pc) == \A r \in RunIds : run[r].pc = pc

\* The generator object of the runs (the same in both: same parameters).
TheGenerator == run[CHOOSE r \in RunIds : TRUE].generator

TheArgs == run[CHOOSE r \in RunIds : TRUE].args

UnchangedByMain ==
    UNCHANGED <<generator, frame, transactions_csv, revenue_metrics, revenue_report>>

InitMain ==
    /\ run \in [RunIds -> {main_entered(now) : now \in MainClocks}]
    /\ generator = None
    /\ frame = None
    /\ transactions_csv = None
    /\ revenue_metrics = None
    /\ revenue_report = None

MainParseArgs ==
    /\ AllAt("parse_args")
    /\ \E args \in MainArgs : run' = [r \in RunIds |-> main_parse_args(run[r], args)]
    /\ UnchangedByMain

SaveDataGenerateProducts ==
    /\ AllAt("save_data.generate_products")
    /\ \E draws \in [1..Len(TheGenerator.products) -> MainProductDraws] :
          run' = [r \in RunIds |-> save_data_generate_products(run[r], draws)]
    /\ UnchangedByMain

SaveDataGenerateUserLogs ==
    /\ AllAt("save_data.generate_user_logs")
    /\ \E draws \in [1..LogIterations(TheGenerator, TheArgs.logs)
                       -> MainLogDraws(TheGenerator, DefaultDays)] :
          run' = [r \in RunIds |-> save_data_generate_user_logs(run[r], draws)]
    /\ UnchangedByMain

SaveDataGenerateTransactions ==
    /\ AllAt("save_data.generate_transactions")
    /\ \E purchasing_users \in SampleResults(TheGenerator) :
          \E draws \in
                  IF SampleRaises(TheGenerator) THEN {<<>>}
                  ELSE [1..BasketIterations(TheGenerator, purchasing_users, TheArgs.transactions)
                          -> MainBasketDraws(TheGenerator, purchasing_users, DefaultDays)] :
              run' = [r \in RunIds |->
                        save_data_generate_transactions(run[r], purchasing_users, draws)]
    /\ UnchangedByMain

SaveDataProductsToCsv ==
    /\ AllAt("save_data.products_to_csv")
    /\ run' = [r \in RunIds |->
                 save_data_to_csv(run[r], "products.csv", run[r].products_df,
                                  "save_data.user_logs_to_csv")]
    /\ UnchangedByMain

SaveDataUserLogsToCsv ==
    /\ AllAt("save_data.user_logs_to_csv")
    /\ run' = [r \in RunIds |->
                 save_data_to_csv(run[r], "user_logs.csv", run[r].logs_df,
                                  "save_data.transactions_to_csv")]
    /\ UnchangedByMain

SaveDataTransactionsToCsv ==
    /\ AllAt("save_data.transactions_to_csv")
    /\ run' = [r \in RunIds |->
                 save_data_to_csv(run[r], "transactions.csv", run[r].transactions_df,
                                  "main.generate_user_logs")]
    /\ UnchangedByMain

MainGenerateUserLogs ==
    /\ AllAt("main.generate_user_logs")
    /\ \E draws \in [1..LogIterations(TheGenerator, TheArgs.logs)
                       -> MainLogDraws(TheGenerator, DefaultDays)] :
          run' = [r \in RunIds |-> main_generate_user_logs(run[r], draws)]
    /\ UnchangedByMain

NextMain ==
    \/ MainParseArgs
    \/ SaveDataGenerateProducts
    \/ SaveDataGenerateUserLogs
    \/ SaveDataGenerateTransactions
    \/ SaveDataProductsToCsv
    \/ SaveDataUserLogsToCsv
    \/ SaveDataTransactionsToCsv
    \/ MainGenerateUserLogs

SpecMain == InitMain /\ [][NextMain]_vars

(***************************************************************************)
(* SpecRevenue: revenue_analysis.py run on a transactions table.           *)
(* A Spark value is NULL or a number; SUM and AVG over no rows are NULL,   *)
(* which collect() hands to Python as None.  An average is kept as the     *)
(* exact fraction sum / count.  The two lazily ordered frames are modelled *)
(* by the rows show() would print; groups of equal sort key keep the order *)
(* in which their first row appears.                                       *)
(***************************************************************************)
MaxCsvRows == 3         \* the loaded table has 1 .. MaxCsvRows rows

Null == [null |-> TRUE]

Value(v) == [null |-> FALSE, value |-> v]

csv_row(amount, status, payment_method, timestamp) ==
    [transaction_id |-> Uuid4(1), user_id |-> "user_000000", product_id |-> "product_0000",
     quantity |-> 1, unit_price |-> amount, amount |-> amount, timestamp |-> timestamp,
     payment_method |-> payment_method, status |-> status]

\* Rows of a transactions.csv that conforms to the output contract.
CsvRows ==
    {csv_row(10000, "completed", "credit_card", 1700000000),
     csv_row(20000, "completed", "paypal", 1700000000 + SecondsPerDay),
     csv_row(5000, "completed", "credit_card", 1700000000 + SecondsPerDay),
     csv_row(5000, "pending", "credit_card", 1700000000),
     csv_row(999, "cancelled", "debit_card", 1700000000),
     csv_row(29997, "refunded", "gift_card", 1700000000 + SecondsPerDay)}

\* sum("amount") over rows: NULL when there is no row
spark_sum(rows) ==
    IF rows = <<>> THEN Null ELSE Value(SumSeq([i \in DOMAIN rows |-> rows[i].amount]))

\* avg("amount") over rows: NULL when there is no row
spark_avg(rows) ==
    IF rows = <<>> THEN Null
    ELSE Value([numerator |-> SumSeq([i \in DOMAIN rows |-> rows[i].amount]),
                denominator |-> Len(rows)])

\* to_date("timestamp"): the calendar day of a timestamp
to_date(timestamp) == timestamp \div SecondsPerDay

\* The distinct entries of keys, in order of first appearance.
RECURSIVE DistinctInOrder(_)
DistinctInOrder(keys) ==
    IF keys = <<>> THEN <<>>
    ELSE LET before == DistinctInOrder(SubSeq(keys, 1, Len(keys) - 1))
             k == keys[Len(keys)]
         IN  IF k \in Range(before) THEN before ELSE Append(before, k)

\* groupBy(column).agg(count("*"), sum("amount")), keys[i] being the column's value
\* on rows[i]: one row per distinct key
group_by(rows, keys) ==
    LET distinct == DistinctInOrder(keys)
        keyed == [i \in DOMAIN rows |-> [key |-> keys[i], amount |-> rows[i].amount]]
        Members(k) == SelectSeq(keyed, LAMBDA r : r.key = k)
    IN  [g \in DOMAIN distinct |->
            [key |-> distinct[g],
             count |-> Len(Members(distinct[g])),
             sum |-> spark_sum(Members(distinct[g])).value]]

\* orderBy(col(column).desc()): ascending by the negated column
order_by_desc(rows, column) ==
    LET ranked == [i \in DOMAIN rows |-> [row |-> rows[i], rank |-> -rows[i][column]]]
        sorted == SortRows(ranked, "rank")
    IN  [i \in DOMAIN sorted |-> sorted[i].row]

IsCompleted(row) == row.status = "completed"

calculate_revenue(rows) ==
    LET completed == SelectSeq(rows, IsCompleted)
        by_payment ==
            group_by(completed, [i \in DOMAIN completed |-> completed[i].payment_method])
        by_date ==
            group_by(completed, [i \in DOMAIN completed |-> to_date(completed[i].timestamp)])
        by_status == group_by(rows, [i \in DOMAIN rows |-> rows[i].status])
    IN  [total_revenue |-> spark_sum(completed),
         revenue_by_payment |->
             LET sorted == order_by_desc(by_payment, "sum")
             IN  [i \in DOMAIN sorted |->
                    [payment_method |-> sorted[i].key, revenue |-> sorted[i].sum]],
         daily_revenue |->
             LET sorted == SortRows(by_date, "key")
             IN  [i \in DOMAIN sorted |->
                    [date |-> sorted[i].key, daily_revenue |-> sorted[i].sum]],
         avg_transaction_value |-> spark_avg(completed),
         transaction_status_counts |->
             LET sorted == order_by_desc(by_status, "count")
             IN  [i \in DOMAIN sorted |->
                    [status |-> sorted[i].key, count |-> sorted[i].count,
                     total_amount |-> sorted[i].sum]]]

\* lines 79-90: the f-strings format total_revenue and avg_transaction_value with
\* ":,.2f", which None does not support.
print_report(metrics) ==
    IF metrics.total_revenue = Null THEN [exception |-> "TypeError"]
    ELSE [total_revenue |-> metrics.total_revenue.value,
          avg_transaction_value |-> metrics.avg_transaction_value.value]

RECURSIVE SeqsUpTo(_, _)
SeqsUpTo(S, n) ==
    IF n = 0 THEN {<<>>}
    ELSE LET shorter == SeqsUpTo(S, n - 1)
         IN  shorter \cup {Append(t, x) : t \in {u \in shorter : Len(u) = n - 1}, x \in S}

InitRevenue ==
    /\ transactions_csv \in SeqsUpTo(CsvRows, MaxCsvRows) \ {<<>>}
    /\ revenue_metrics = None
    /\ revenue_report = None
    /\ generator = None
    /\ frame = None
    /\ run = None

CalculateRevenue ==
    /\ revenue_metrics = None
    /\ revenue_metrics' = calculate_revenue(transactions_csv)
    /\ UNCHANGED <<generator, frame, run, transactions_csv, revenue_report>>

PrintReport ==
    /\ revenue_metrics # None
    /\ revenue_report = None
    /\ revenue_report' = print_report(revenue_metrics)
    /\ UNCHANGED <<generator, frame, run, transactions_csv, revenue_metrics>>

NextRevenue ==
    \/ CalculateRevenue
    \/ PrintReport

SpecRevenue == InitRevenue /\ [][NextRevenue]_vars

(***************************************************************************)
(* Properties of the generator methods (checked under Spec).               *)
(***************************************************************************)
Called(method) == frame # None /\ frame.method = method

Returned(method) == Called(method) /\ ~IsException(frame.ret)

IsSortedBy(rows, by) == \A i \in 1..(Len(rows) - 1) : rows[i][by] <= rows[i + 1][by]

BagOfSeq(rows) ==
    LET R == Range(rows) IN [r \in R |-> Cardinality({i \in DOMAIN rows : rows[i] = r})]

Injective(s) == \A i, j \in DOMAIN s : s[i] = s[j] => i = j

\* C1 (as claimed): every row returned by generate_user_logs and by generate_transactions
\* has now - days <= timestamp <= now, now being the clock value the call read.
C1_TimestampWithinWindow ==
    (Returned("generate_user_logs") \/ Returned("generate_transactions")) =>
        \A i \in DOMAIN frame.ret.rows :
            /\ frame.now - frame.days * SecondsPerDay <= frame.ret.rows[i].timestamp
            /\ frame.ret.rows[i].timestamp <= frame.now

\* C2 (as claimed): on every product row the category that keyed the brand table is the
\* category stored on the row, so the brand belongs to the stored category's brand list.
C2_BrandMatchesCategory ==
    Returned("generate_products") =>
        \A i \in DOMAIN frame.ret.rows :
            /\ categories[frame.draws[i].category] = frame.ret.rows[i].category
            /\ frame.ret.rows[i].brand \in Range(brands(frame.ret.rows[i].category))

PurchasersWellFormed(size) ==
    /\ Len(frame.purchasing_users) = size
    /\ Injective(frame.purchasing_users)
    /\ Range(frame.purchasing_users) \subseteq Range(generator.users)
    /\ ~IsException(frame.ret) =>
          \A i \in DOMAIN frame.ret.rows :
              frame.ret.rows[i].user_id \in Range(frame.purchasing_users)

\* C3 (as claimed): for num_users >= 0 the purchaser subset is a sample without
\* replacement of the user pool of size round(0.3 * num_users), and every user_id of a
\* returned transaction line belongs to it.
C3_PurchasersRounded ==
    (Called("generate_transactions") /\ generator.num_users >= 0) =>
        PurchasersWellFormed(Round3Tenths(generator.num_users))

\* C3 (amended): for num_users >= 0 the purchaser subset is a sample without replacement
\* of the user pool of size floor(0.3 * num_users) (the product truncated, not rounded),
\* and every user_id of a returned transaction line belongs to it.
C3_PurchasersTruncated ==
    (Called("generate_transactions") /\ generator.num_users >= 0) =>
        PurchasersWellFormed((3 * generator.num_users) \div 10)

\* C3 witness: a call that sampled two purchasers and returned lines of both.
C3_Witness ==
    /\ Returned("generate_transactions")
    /\ Len(frame.purchasing_users) = 2
    /\ {frame.ret.rows[i].user_id : i \in DOMAIN frame.ret.rows} = Range(frame.purchasing_users)

ExpectedProductIds ==
    <<"product_0000", "product_0001", "product_0002", "product_0003", "product_0004">>

\* C5: for num_products = N >= 0, generate_products returns exactly N rows, one per id
\* in pool order, with pairwise distinct product_id values product_0000 .. product_{N-1}.
C5_ProductRows ==
    (Called("generate_products") /\ generator.num_products >= 0) =>
        /\ ~IsException(frame.ret)
        /\ Len(frame.ret.rows) = generator.num_products
        /\ \A i \in DOMAIN frame.ret.rows :
              frame.ret.rows[i].product_id = ExpectedProductIds[i]
        /\ \A i, j \in DOMAIN frame.ret.rows :
              frame.ret.rows[i].product_id = frame.ret.rows[j].product_id => i = j

\* C5 witness: a catalog of at least two products was generated.
C5_Witness ==
    /\ Returned("generate_products")
    /\ generator.num_products >= 2
    /\ Len(frame.ret.rows) >= 2

\* The sampled basket sizes of a call, and where basket b starts in transactions_data.
BasketSizes == [b \in DOMAIN frame.draws |-> frame.draws[b].num_items]

BasketOffset(b) == SumSeq(SubSeq(BasketSizes, 1, b - 1))

\* The returned rows are the lines of the count basket-events: as many as the sum of
\* the sampled basket sizes (each in 1..5), hence between count and 5 * count, and the
\* lines of one basket-event share user_id and timestamp.
RowsMatchBaskets ==
    /\ Len(BasketSizes) = frame.num_transactions
    /\ \A b \in DOMAIN BasketSizes : BasketSizes[b] \in 1..5
    /\ Len(frame.ret.rows) = SumSeq(BasketSizes)
    /\ Len(frame.transactions_data) = SumSeq(BasketSizes)
    /\ frame.num_transactions <= Len(frame.ret.rows)
    /\ Len(frame.ret.rows) <= 5 * frame.num_transactions
    /\ \A b \in DOMAIN BasketSizes :
          \A i, j \in 1..BasketSizes[b] :
              LET ri == frame.transactions_data[BasketOffset(b) + i]
                  rj == frame.transactions_data[BasketOffset(b) + j]
              IN  ri.user_id = rj.user_id /\ ri.timestamp = rj.timestamp

\* C6 (as claimed): for every count >= 1 with a non-empty purchaser subset,
\* generate_transactions(count) returns as many rows as the sum of the sampled basket
\* sizes of its count basket-events (each in 1..5), hence between count and 5 * count,
\* and the lines of one basket-event share user_id and timestamp.
C6_RowsPerBasket ==
    (/\ Called("generate_transactions")
     /\ frame.num_transactions >= 1
     /\ frame.purchasing_users # <<>>) =>
        /\ ~IsException(frame.ret)
        /\ RowsMatchBaskets

GeneratedRows ==
    IF frame.method = "generate_user_logs" THEN frame.logs_data ELSE frame.transactions_data

\* C7: the table generate_user_logs or generate_transactions returns is non-decreasing
\* by timestamp and holds exactly the generated rows: the sort adds, drops and alters none.
C7_SortedPermutation ==
    (Returned("generate_user_logs") \/ Returned("generate_transactions")) =>
        /\ IsSortedBy(frame.ret.rows, "timestamp")
        /\ BagOfSeq(frame.ret.rows) = BagOfSeq(GeneratedRows)
        /\ Len(frame.ret.rows) = Len(GeneratedRows)

\* C7 witness: rows generated out of timestamp order came back reordered.
C7_Witness ==
    /\ Returned("generate_transactions")
    /\ Len(frame.transactions_data) >= 3
    /\ ~IsSortedBy(frame.transactions_data, "timestamp")
    /\ frame.ret.rows # frame.transactions_data

(***************************************************************************)
(* Properties of main() (checked under SpecMain).                          *)
(***************************************************************************)
IsPrefix(s, t) == Len(s) <= Len(t) /\ SubSeq(t, 1, Len(s)) = s

FileNames(st) == [i \in DOMAIN st.files |-> st.files[i].name]

\* C4 (as claimed): two runs with the same seed and the same parameters, started at any
\* two clock values, write identical products.csv, user_logs.csv and transactions.csv.
C4_RunsWriteIdenticalFiles ==
    AllAt("done") => \A r1, r2 \in RunIds : run[r1].files = run[r2].files

\* C9 (as claimed): a zero or negative --users, --products, --logs or --transactions is
\* not rejected; its loop runs zero times and yields zero rows, and the run never enters
\* an error state on its way to writing the three files.
C9_NonPositiveValueHarmless ==
    \A r \in RunIds :
        LET st == run[r] IN
        (st.args # None /\ \E a \in DOMAIN st.args : st.args[a] <= 0) =>
            /\ st.pc # "raised"
            /\ (st.args.products <= 0 /\ st.products_df # None) => st.products_df.rows = <<>>
            /\ (st.args.logs <= 0 /\ st.logs_df # None) => st.logs_df.rows = <<>>
            /\ (st.args.transactions <= 0 /\ st.transactions_df # None) =>
                  st.transactions_df.rows = <<>>

\* C10 (as claimed): in every run the generators are invoked exactly in the order
\* products, logs, transactions, once each; the three complete before the first file is
\* written; the files are written in the order products.csv, user_logs.csv,
\* transactions.csv; and no generator is invoked after the writes.
C10_ThreeCallsThenThreeWrites ==
    \A r \in RunIds :
        LET st == run[r] IN
        /\ IsPrefix(st.calls, <<"generate_products", "generate_user_logs", "generate_transactions">>)
        /\ st.files # <<>> => Len(st.calls) = 3
        /\ IsPrefix(FileNames(st), <<"products.csv", "user_logs.csv", "transactions.csv">>)
        /\ st.pc = "done" => Len(st.calls) = 3 /\ Len(st.files) = 3

(***************************************************************************)
(* Properties of calculate_revenue (checked under SpecRevenue).            *)
(***************************************************************************)
CompletedAmounts ==
    LET completed == SelectSeq(transactions_csv, IsCompleted)
    IN  [i \in DOMAIN completed |-> completed[i].amount]

\* C8 (as claimed): for every conforming table, one without completed rows included,
\* total_revenue is the sum of amount over exactly the completed rows,
\* avg_transaction_value is that sum divided by the number of completed rows, and the
\* per-status counts count every row once.
C8_RevenueMetrics ==
    revenue_metrics # None =>
        /\ revenue_metrics.total_revenue = Value(SumSeq(CompletedAmounts))
        /\ Len(CompletedAmounts) > 0 =>
              revenue_metrics.avg_transaction_value =
                  Value([numerator |-> SumSeq(CompletedAmounts),
                         denominator |-> Len(CompletedAmounts)])
        /\ SumSeq([i \in DOMAIN revenue_metrics.transaction_status_counts |->
                      revenue_metrics.transaction_status_counts[i].count])
              = Len(transactions_csv)

====
